---- MODULE Spec2Model ----
(***************************************************************************)
(* Model of the orchestration layer of secret-shopper                      *)
(* (src/utils/ai_integration/agents.py, class MasterOrchestratorAgent):    *)
(* the merge engine (_intelligent_merge behind the merge_community_data    *)
(* tool), the three extraction tools with their processed-URL set, the     *)
(* validate_extraction_data tool with its iteration cap, and the start of  *)
(* a run (orchestrate_extraction); and of the scraper behind the tools     *)
(* (src/utils/web_scraper.py, class DjangoWebScraper): navigation          *)
(* discovery and scrape_url_to_content.                                    *)
(*                                                                         *)
(* A Python dict with optional keys is a record with a field "keys" (the   *)
(* set of keys present) and one field per key; an absent key holds the     *)
(* default of its type so that equal dicts are equal records.  An optional *)
(* value is a sequence: <<>> is None (what dict.get returns for a missing  *)
(* key), <<v>> is the value v.                                             *)
(***************************************************************************)
EXTENDS Integers, Sequences, FiniteSets, TLC

VARIABLES
    acc,            \* the accumulator carried between merge_community_data calls
    last,           \* the arguments and outcome of the latest merge_community_data call
    mergeCount,     \* number of merge_community_data calls made in the run
    processed_urls, \* MasterOrchestratorAgent.processed_urls
    runStatus,      \* "running" | "failed": agent.run of orchestrate_extraction
    specialistCalls,\* per URL: specialist runs started by plain and by forced tool calls
    lastCall,       \* the latest extraction tool call and what it did
    toolCalls,      \* number of extraction tool calls made in the run
    validatorCalls, \* number of times validation_agent.validate_extraction was run
    validateCalls,  \* number of validate_extraction_data calls made in the run
    lastReport,     \* the latest validate_extraction_data call and the report it returned
    rounds,         \* the latest calls that form successive rounds 1, 2, ..., oldest first
    site,           \* the seed page as the web site serves it during the run
    lastDiscovery,  \* the latest discover_navigation call and what it returned
    lastScrape,     \* the latest DjangoWebScraper.scrape_url_to_content call
    scraper,        \* one DjangoWebScraper: its browser resources and open pages
    target_data,    \* MasterOrchestratorAgent.target_data: the fields already known
    runs,           \* the orchestrate_extraction calls made on the agent, oldest first
    orchestration,  \* how the current orchestrate_extraction call ended, if it has
    service,        \* one MultiProviderAIService: which of its agents exist
    lastRun,        \* the latest MultiProviderAIService.run call
    db,             \* the database rows of one Shop: ShopResult, CommunityInfo, pages
    lastSave,       \* the latest _parse_and_save_community_info call
    shop,           \* the Shop row start_information_gathering_task is given
    task,           \* the Celery task: its position, its request, its outcome
    inflight,       \* the tool calls waiting for their specialist
    mergeCall,      \* the latest merge_community_data call, with both its texts
    cancelled,      \* CancelShopView has set the shop to ERROR
    shops,          \* the shops of one target, in the order StartShopView made them
    requests,       \* the StartShopView requests for that target
    planMerges      \* one sequence of floor plans merged by each of the three merges

vars == <<acc, last, mergeCount, processed_urls, runStatus, specialistCalls,
          lastCall, toolCalls, validatorCalls, validateCalls, lastReport, rounds,
          site, lastDiscovery, lastScrape, scraper, target_data, runs,
          orchestration, service, lastRun,
          db, lastSave, shop, task, inflight, mergeCall, cancelled,
          shops, requests, planMerges>>

mergeVars == <<acc, last, mergeCount, mergeCall, planMerges>>
toolVars == <<processed_urls, runStatus, specialistCalls, lastCall, toolCalls>>
validateVars == <<validatorCalls, validateCalls, lastReport, rounds>>
scraperVars == <<site, lastDiscovery, lastScrape, scraper>>
agentVars == <<target_data, runs, orchestration>>
serviceVars == <<service, lastRun>>
dbVars == <<db, lastSave>>
taskVars == <<shop, task>>
viewVars == <<cancelled, shops, requests>>

(***************************************************************************)
(* Bounds                                                                  *)
(***************************************************************************)
MaxMerges == 3
MaxToolCalls == 4
MaxValidateCalls == 4
MaxAnchors == 2      \* <a href> elements on the seed page
MaxClickables == 1   \* clickable elements without href on the seed page
MaxMatches == 1      \* route-pattern matches in the seed page's scripts
MaxRuns == 2         \* orchestrate_extraction calls on one agent
MaxScrapes == 2      \* scrape_url_to_content calls on one scraper
MaxSaves == 2        \* _parse_and_save_community_info calls for one ShopResult
MaxNewPages == 1     \* community_pages of one CommunityInformation
MaxInFlight == 2     \* tool calls of one model response
MaxShops == 2        \* shops StartShopView creates for one target
MaxRequests == 2     \* StartShopView requests for one target
MaxPlanMerges == 3    \* floor plans merged one after the other

(***************************************************************************)
(* Values                                                                  *)
(***************************************************************************)
None == <<>>
Some(v) == <<v>>

\* Python truthiness of dict.get(field): None, 0 and "" are falsy.
TruthyNum(o) == o # None /\ o[1] # 0
TruthyStr(o) == o # None /\ o[1] # ""

CollectionKeys == {"fees", "floor_plans", "community_amenities", "community_pages"}
ScalarKeys == {"name", "overview", "url"}
AllKeys == CollectionKeys \cup ScalarKeys

\* {} as parsed by json.loads
EmptyDict ==
    [keys |-> {}, name |-> None, overview |-> None, url |-> None, fees |-> <<>>,
     floor_plans |-> <<>>, community_amenities |-> <<>>, community_pages |-> <<>>]

\* the fields of a floor plan that the merge fills on an existing entry
FillFields == <<"min_rental_price", "max_rental_price", "sqft",
                "security_deposit", "image", "num_available">>

Truthy(field, o) == IF field = "image" THEN TruthyStr(o) ELSE TruthyNum(o)

Max(S) == CHOOSE x \in S : \A y \in S : y <= x

(***************************************************************************)
(* _intelligent_merge                                                      *)
(***************************************************************************)
FeeKey(fee) == <<fee.fee_name, fee.fee_category>>
PlanKey(fp) == <<fp.name, fp.beds, fp.baths>>
AmenityKey(a) == a.amenity
\* page.get('url', page.get('name', '')): the name is used only when the
\* 'url' key is absent; a page's url field is None exactly when the key is absent
PageKey(page) == IF page.url = None THEN page.name ELSE page.url[1]

\* the identity keys of a list of entries, one per entry
FeeKeys(fees) == [i \in DOMAIN fees |-> FeeKey(fees[i])]
AmenityKeys(amenities) == [i \in DOMAIN amenities |-> AmenityKey(amenities[i])]
PageKeys(pages) == [i \in DOMAIN pages |-> PageKey(pages[i])]

Range(seq) == {seq[i] : i \in DOMAIN seq}

RECURSIVE AppendNew(_, _, _, _)
\* for new_x in new_data[...]: if key not in existing: merged[...].append(new_x)
\* (the index `existing` is built once, before the loop, and never updated);
\* new_keys[i] is the key of news[i]
AppendNew(list, news, new_keys, existing) ==
    IF news = <<>> THEN list
    ELSE AppendNew(IF Head(new_keys) \notin existing
                     THEN Append(list, Head(news)) ELSE list,
                   Tail(news), Tail(new_keys), existing)

\* a merge that never completes an existing floor plan
FillPlanNever(existing_plan, new_plan, fields) == existing_plan

RECURSIVE FillPlan(_, _, _)
\* lines 1109-1111: for field in [...]: if new_plan.get(field) and not
\* existing_plan.get(field): existing_plan[field] = new_plan[field]
FillPlan(existing_plan, new_plan, fields) ==
    IF fields = <<>> THEN existing_plan
    ELSE LET field == Head(fields)
         IN FillPlan(IF Truthy(field, new_plan[field]) /\ ~Truthy(field, existing_plan[field])
                       THEN [existing_plan EXCEPT ![field] = new_plan[field]]
                       ELSE existing_plan,
                     new_plan, Tail(fields))

RECURSIVE MergePlans(_, _, _)
\* lines 1097-1111; n0 is the number of plans before the loop: existing_plans
\* indexes those only, and for equal keys the dict keeps the last one
MergePlans(plans, news, n0) ==
    IF news = <<>> THEN plans
    ELSE LET new_plan == Head(news)
             idx == {j \in 1..n0 : PlanKey(plans[j]) = PlanKey(new_plan)}
         IN MergePlans(IF idx = {}
                         THEN Append(plans, new_plan)
                         ELSE [plans EXCEPT ![Max(idx)] = FillPlan(@, new_plan, FillFields)],
                       Tail(news), n0)

MergeFees(merged, new_data) ==
    IF "fees" \in new_data.keys /\ "fees" \in merged.keys
    THEN [merged EXCEPT !.fees =
            AppendNew(@, new_data.fees, FeeKeys(new_data.fees),
                      Range(FeeKeys(merged.fees)))]
    ELSE IF "fees" \in new_data.keys
    THEN [merged EXCEPT !.fees = new_data.fees, !.keys = @ \cup {"fees"}]
    ELSE merged

MergeFloorPlans(merged, new_data) ==
    IF "floor_plans" \in new_data.keys /\ "floor_plans" \in merged.keys
    THEN [merged EXCEPT !.floor_plans =
            MergePlans(@, new_data.floor_plans, Len(merged.floor_plans))]
    ELSE IF "floor_plans" \in new_data.keys
    THEN [merged EXCEPT !.floor_plans = new_data.floor_plans,
                        !.keys = @ \cup {"floor_plans"}]
    ELSE merged

MergeAmenities(merged, new_data) ==
    IF "community_amenities" \in new_data.keys /\ "community_amenities" \in merged.keys
    THEN [merged EXCEPT !.community_amenities =
            AppendNew(@, new_data.community_amenities,
                      AmenityKeys(new_data.community_amenities),
                      Range(AmenityKeys(merged.community_amenities)))]
    ELSE IF "community_amenities" \in new_data.keys
    THEN [merged EXCEPT !.community_amenities = new_data.community_amenities,
                        !.keys = @ \cup {"community_amenities"}]
    ELSE merged

MergePages(merged, new_data) ==
    IF "community_pages" \in new_data.keys /\ "community_pages" \in merged.keys
    THEN [merged EXCEPT !.community_pages =
            AppendNew(@, new_data.community_pages,
                      PageKeys(new_data.community_pages),
                      Range(PageKeys(merged.community_pages)))]
    ELSE IF "community_pages" \in new_data.keys
    THEN [merged EXCEPT !.community_pages = new_data.community_pages,
                        !.keys = @ \cup {"community_pages"}]
    ELSE merged

\* a merge that lets the newest non-empty scalar win
MergeScalarOverwrite(merged, new_data, key) ==
    IF key \in new_data.keys /\ TruthyStr(new_data[key])
    THEN [merged EXCEPT ![key] = new_data[key], !.keys = @ \cup {key}]
    ELSE merged

\* lines 1138-1141: if value and not merged.get(key): merged[key] = value
MergeScalar(merged, new_data, key) ==
    IF key \in new_data.keys /\ TruthyStr(new_data[key]) /\ ~TruthyStr(merged[key])
    THEN [merged EXCEPT ![key] = new_data[key], !.keys = @ \cup {key}]
    ELSE merged

MergeScalars(merged, new_data) ==
    MergeScalar(MergeScalar(MergeScalar(merged, new_data, "name"), new_data, "overview"),
                new_data, "url")

intelligent_merge(current_data, new_data) ==
    IF current_data.keys = {} THEN new_data
    ELSE IF new_data.keys = {} THEN current_data
    ELSE MergeScalars(
           MergePages(
             MergeAmenities(
               MergeFloorPlans(
                 MergeFees(current_data, new_data), new_data), new_data), new_data),
           new_data)

(***************************************************************************)
(* Inputs of the merge tool: what the caller can pass as new_data_json     *)
(***************************************************************************)
Fee(n, c, a) == [fee_name |-> n, fee_category |-> c, amount |-> a]

Plan(n, b, ba, minp, sqft, avail, img) ==
    [name |-> n, beds |-> b, baths |-> ba, min_rental_price |-> minp,
     max_rental_price |-> None, sqft |-> sqft, security_deposit |-> None,
     image |-> img, num_available |-> avail]

Amenity(a) == [amenity |-> a]
Page(n, u) == [name |-> n, url |-> u]

FeeLists ==
    { <<Fee("Application Fee", "application", None)>>,
      <<Fee("Application Fee", "application", Some(50))>>,
      <<Fee("application fee", "Application", Some(50))>>,
      <<Fee("Pet Fee", "pet", Some(300))>>,
      <<Fee("Pet Fee", "pet", Some(300)), Fee("Pet Fee", "pet", None)>> }

PlanA == Plan("1BR", 1, 1, Some(1500), None, None, None)
PlanB == Plan("1BR", 1, 1, Some(1500), Some(650), None, None)

PlanLists ==
    { <<PlanA>>,
      <<PlanB>>,
      <<Plan("1BR", 1, 1, None, None, Some(0), None)>>,
      <<Plan("1BR", 1, 1, Some(1400), Some(700), Some(3), Some("a.png"))>>,
      <<Plan("2BR", 2, 1, None, Some(900), None, None)>>,
      <<Plan("2BR", 2, 1, None, Some(900), None, None),
        Plan("2BR", 2, 1, Some(2100), None, None, None)>> }

AmenityLists ==
    { <<Amenity("Pool")>>, <<Amenity("Gym")>>, <<Amenity("Gym"), Amenity("Gym")>> }

PageLists ==
    { <<Page("Home", Some(""))>>,
      <<Page("Tour", Some(""))>>,
      <<Page("Tour", Some("")), Page("Tour", Some(""))>>,
      <<Page("Home", Some("https://x.test/"))>>,
      <<Page("Contact", None)>> }

\* CommunityInformation as the extraction tools return it and model_dump
\* serialises it: every key present, one collection populated
Full(field, list, name) ==
    [EmptyDict EXCEPT !.keys = AllKeys, !.name = Some(name), !.overview = Some(""),
                      ![field] = list]

\* a JSON object that carries a single key
Bare(field, value) == [EmptyDict EXCEPT !.keys = {field}, ![field] = value]

Partials ==
    {Full("fees", l, "") : l \in FeeLists}
    \cup {Full("floor_plans", l, "") : l \in PlanLists}
    \cup {Full("community_amenities", l, "") : l \in AmenityLists}
    \cup {Full("community_pages", l, "") : l \in PageLists}
    \cup {Full("fees", <<>>, n) : n \in {"Oak Park", "Elm Court"}}
    \cup {Full("fees", <<Fee("Pet Fee", "pet", Some(300))>>, "Elm Court")}
    \cup {Bare("name", Some("Oak Park")), Bare("overview", Some("Quiet"))}
    \cup {Bare("fees", <<Fee("Pet Fee", "pet", None)>>),
          Bare("floor_plans", <<PlanA>>),
          Bare("community_amenities", <<Amenity("Pool")>>),
          Bare("community_pages", <<Page("Tour", Some(""))>>)}
    \cup {EmptyDict}

\* a JSON text: either it parses to an object or json.loads raises
InvalidJson == [valid |-> FALSE, obj |-> EmptyDict]
Json(d) == [valid |-> TRUE, obj |-> d]
JsonInputs == {Json(p) : p \in Partials} \cup {InvalidJson}

NoMerge == [current |-> EmptyDict, new |-> InvalidJson, raised |-> FALSE]

(***************************************************************************)
(* merge_community_data                                                    *)
(***************************************************************************)
\* the string the tool returns (lines 931-951); current_data_json is the
\* accumulator the previous call returned, "{}" at the start
merge_result(current_data, new_data_json) ==
    IF ~new_data_json.valid THEN current_data
    ELSE intelligent_merge(current_data, new_data_json.obj)

merge_community_data(new_data_json) ==
    /\ mergeCount < MaxMerges
    /\ acc' = merge_result(acc, new_data_json)
    /\ last' = [current |-> acc, new |-> new_data_json,
                raised |-> ~new_data_json.valid]
    /\ mergeCount' = mergeCount + 1
    /\ UNCHANGED <<mergeCall, planMerges, toolVars, validateVars, scraperVars, agentVars, serviceVars, dbVars, taskVars, inflight, viewVars>>

URLs == {"https://x.test/plans", "https://x.test/fees"}

(***************************************************************************)
(* merge_community_data as the caller sees it: both arguments are JSON     *)
(* texts the orchestrating model writes (agents.py lines 908-951)          *)
(***************************************************************************)
\* a JSON text: kind is what the text holds ("blank" is the empty string,
\* "invalid" a text json.loads rejects), obj its object, and dumped whether
\* the text is written exactly as json.dumps writes it
Text(kind, obj, dumped) == [kind |-> kind, obj |-> obj, dumped |-> dumped]

dumps(d) == Text("object", d, TRUE)
ArrayText == Text("array", EmptyDict, TRUE)
InvalidText == Text("invalid", EmptyDict, FALSE)
BlankText == Text("blank", EmptyDict, FALSE)

\* the record a tool returns for a URL it skips (lines 779-782)
SkipRecord(specific_url) ==
    [EmptyDict EXCEPT !.keys = AllKeys, !.name = Some(""), !.overview = Some(""),
                      !.url = Some(specific_url)]

Accumulators == {Full("fees", <<Fee("Pet Fee", "pet", Some(300))>>, "Elm Court"),
                 [Full("community_pages", <<Page("Tour", Some(""))>>, "Oak Park")
                    EXCEPT !.url = Some("https://x.test/")],
                 Bare("floor_plans", <<PlanA>>)}

CurrentTexts ==
    {dumps(a) : a \in Accumulators}
    \cup {Text("object", a, FALSE) : a \in Accumulators}
    \cup {dumps(EmptyDict), BlankText, InvalidText, ArrayText}

NewTexts ==
    {dumps(p) : p \in Partials} \cup {BlankText, InvalidText, ArrayText}
    \cup {dumps(SkipRecord(u)) : u \in URLs}

\* current_data_json.strip() in ['{}', ''] (a text that is "{}" padded with
\* blanks is an object text with dumped = FALSE and no keys)
IsEmptyText(t) == t.kind = "blank" \/ (t.kind = "object" /\ t.obj.keys = {})

\* json.loads raises
LoadsRaises(t) == t.kind \in {"blank", "invalid"}

\* the value json.loads returns is falsy
Falsy(t) == t.kind = "object" /\ t.obj.keys = {}

\* what the except clause returns
FailureReturnEmpty(current_data_json) == dumps(EmptyDict)
FailureReturn(current_data_json) == current_data_json

NoMergeCall == [called |-> FALSE, current_data_json |-> dumps(EmptyDict),
                new_data_json |-> dumps(EmptyDict), failed |-> "no",
                returned |-> dumps(EmptyDict)]

\* lines 931-951: the outcome of one call; failed names what raised
MergeCall(current_data_json, new_data_json) ==
    LET failed ==
          IF ~IsEmptyText(current_data_json) /\ LoadsRaises(current_data_json)
          THEN "current_data_json"
          ELSE IF LoadsRaises(new_data_json) THEN "new_data_json"
          ELSE IF IsEmptyText(current_data_json) \/ Falsy(new_data_json) THEN "no"
          ELSE IF current_data_json.kind = "array" \/ new_data_json.kind = "array"
          THEN "merge"
          ELSE "no"
        returned ==
          IF failed # "no" THEN FailureReturn(current_data_json)
          ELSE IF IsEmptyText(current_data_json)
          THEN [new_data_json EXCEPT !.dumped = TRUE]
          ELSE IF Falsy(new_data_json)
          THEN [current_data_json EXCEPT !.dumped = TRUE]
          ELSE dumps(intelligent_merge(current_data_json.obj, new_data_json.obj))
    IN [called |-> TRUE, current_data_json |-> current_data_json,
        new_data_json |-> new_data_json, failed |-> failed, returned |-> returned]

merge_tool(current_data_json, new_data_json) ==
    /\ mergeCall' = MergeCall(current_data_json, new_data_json)
    /\ UNCHANGED <<acc, last, mergeCount, planMerges, toolVars, validateVars, scraperVars, agentVars,
                   serviceVars, dbVars, taskVars, inflight, viewVars>>

(***************************************************************************)
(* The extraction tools and the processed-URL set                          *)
(***************************************************************************)
NoCall == [tool |-> "none", url |-> "", force |-> FALSE, wasProcessed |-> FALSE,
           invoked |-> FALSE, returned |-> "none"]

\* self.processed_urls.add(specific_url) without effect
MarkProcessedNoop(urls, specific_url) == urls

\* self.processed_urls.add(specific_url)
MarkProcessed(urls, specific_url) == urls \cup {specific_url}

\* if not force_rescrape and specific_url in self.processed_urls
SkipsUrl(urls, specific_url, force_rescrape) ==
    ~force_rescrape /\ specific_url \in urls

CountCall(calls, specific_url, force_rescrape) ==
    [calls EXCEPT ![specific_url] =
        IF force_rescrape THEN [@ EXCEPT !.forced = @ + 1]
                          ELSE [@ EXCEPT !.plain = @ + 1]]

\* One whole tool call.  failed: the specialist's own agent run fails;
\* reraises: the specialist lets that exception out (extract_community_info
\* and extract_fees re-raise, extract_floor_plans returns a
\* FloorPlanExtractionResult without floor plans instead).  An exception
\* leaves the tool before the URL is marked and ends agent.run, which
\* orchestrate_extraction re-raises.
ExtractFromUrl(tool, specific_url, force_rescrape, failed, reraises) ==
    /\ runStatus = "running"
    /\ toolCalls < MaxToolCalls
    /\ toolCalls' = toolCalls + 1
    /\ IF SkipsUrl(processed_urls, specific_url, force_rescrape)
       THEN /\ lastCall' = [tool |-> tool, url |-> specific_url, force |-> force_rescrape,
                            wasProcessed |-> TRUE, invoked |-> FALSE,
                            returned |-> "empty"]
            /\ UNCHANGED <<processed_urls, runStatus, specialistCalls>>
       ELSE /\ specialistCalls' = CountCall(specialistCalls, specific_url, force_rescrape)
            /\ IF failed /\ reraises
               THEN /\ runStatus' = "failed"
                    /\ lastCall' = [tool |-> tool, url |-> specific_url,
                                    force |-> force_rescrape,
                                    wasProcessed |-> specific_url \in processed_urls,
                                    invoked |-> TRUE, returned |-> "raised"]
                    /\ UNCHANGED processed_urls
               ELSE /\ processed_urls' = MarkProcessed(processed_urls, specific_url)
                    /\ lastCall' = [tool |-> tool, url |-> specific_url,
                                    force |-> force_rescrape,
                                    wasProcessed |-> specific_url \in processed_urls,
                                    invoked |-> TRUE,
                                    returned |-> IF failed THEN "nothing" ELSE "data"]
                    /\ UNCHANGED runStatus
    /\ UNCHANGED <<mergeVars, validateVars, scraperVars, agentVars, serviceVars, dbVars, taskVars, inflight, viewVars>>

extract_floor_plans_from_url(specific_url, force_rescrape, failed) ==
    ExtractFromUrl("floor_plans", specific_url, force_rescrape, failed, FALSE)

extract_community_overview_from_url(specific_url, force_rescrape, failed) ==
    ExtractFromUrl("community", specific_url, force_rescrape, failed, TRUE)

extract_fees_from_url(specific_url, force_rescrape, failed) ==
    ExtractFromUrl("fees", specific_url, force_rescrape, failed, TRUE)

(***************************************************************************)
(* Tool calls in flight at the same time: the agent runs the tool calls of *)
(* one model response as tasks of one event loop, which interleave at the  *)
(* await of the specialist (agents.py lines 775-790, 829-844, 871-886)     *)
(***************************************************************************)
Tools == {"floor_plans", "community", "fees"}

\* the floor plan specialist returns an empty result when its agent fails,
\* the other two let the exception out
Reraises(tool) == tool # "floor_plans"

Calls == 1..MaxInFlight

Idle == [awaiting |-> FALSE, tool |-> "none", url |-> "", force |-> FALSE,
         wasProcessed |-> FALSE]

\* A tool call up to its await: the membership test, then the dispatch to
\* the specialist.
tool_check(c, tool, specific_url, force_rescrape) ==
    /\ runStatus = "running"
    /\ toolCalls < MaxToolCalls
    /\ ~inflight[c].awaiting
    /\ toolCalls' = toolCalls + 1
    /\ IF SkipsUrl(processed_urls, specific_url, force_rescrape)
       THEN /\ lastCall' = [tool |-> tool, url |-> specific_url, force |-> force_rescrape,
                            wasProcessed |-> TRUE, invoked |-> FALSE,
                            returned |-> "empty"]
            /\ UNCHANGED <<specialistCalls, inflight>>
       ELSE /\ specialistCalls' = CountCall(specialistCalls, specific_url, force_rescrape)
            /\ inflight' = [inflight EXCEPT ![c] =
                              [awaiting |-> TRUE, tool |-> tool, url |-> specific_url,
                               force |-> force_rescrape,
                               wasProcessed |-> specific_url \in processed_urls]]
            /\ UNCHANGED lastCall
    /\ UNCHANGED <<mergeVars, validateVars, scraperVars, agentVars, serviceVars, dbVars,
                   taskVars, processed_urls, runStatus, viewVars>>

\* The same call from its await on: the specialist has returned or raised,
\* and a specialist that returned marks the URL.
tool_mark(c, failed) ==
    /\ runStatus = "running"
    /\ inflight[c].awaiting
    /\ inflight' = [inflight EXCEPT ![c] = Idle]
    /\ IF failed /\ Reraises(inflight[c].tool)
       THEN /\ runStatus' = "failed"
            /\ lastCall' = [tool |-> inflight[c].tool, url |-> inflight[c].url,
                            force |-> inflight[c].force,
                            wasProcessed |-> inflight[c].wasProcessed,
                            invoked |-> TRUE, returned |-> "raised"]
            /\ UNCHANGED processed_urls
       ELSE /\ processed_urls' = MarkProcessed(processed_urls, inflight[c].url)
            /\ lastCall' = [tool |-> inflight[c].tool, url |-> inflight[c].url,
                            force |-> inflight[c].force,
                            wasProcessed |-> inflight[c].wasProcessed,
                            invoked |-> TRUE,
                            returned |-> IF failed THEN "nothing" ELSE "data"]
            /\ UNCHANGED runStatus
    /\ UNCHANGED <<mergeVars, validateVars, scraperVars, agentVars, serviceVars, dbVars,
                   taskVars, specialistCalls, toolCalls, viewVars>>

(***************************************************************************)
(* validate_extraction_data                                                *)
(***************************************************************************)
max_validation_iterations == 3

Scores == {40, 55, 70}
PreviousScores == {0, 40, 70}
Iterations == 1..4

NoReport == [current_iteration |-> 0, previous_validation_score |-> 0,
             completeness_score |-> 0, validation_passed |-> FALSE,
             forced |-> FALSE, raised |-> FALSE, parsed |-> FALSE,
             consulted |-> FALSE, json_ok |-> TRUE, validator_score |-> 0,
             specific_feedback |-> "none", critical_fields_missing |-> FALSE,
             retry_recommendations |-> FALSE, score_log |-> "none"]

\* current_iteration > self.max_validation_iterations
AtIterationCapStrict(current_iteration) == current_iteration > max_validation_iterations

\* if current_iteration >= self.max_validation_iterations
AtIterationCap(current_iteration) == current_iteration >= max_validation_iterations

\* lines 1027-1037: what the tool logs about the score change
ScoreLog(previous_validation_score, current_score) ==
    IF previous_validation_score > 0
    THEN IF current_score - previous_validation_score > 0 THEN "improved"
         ELSE IF current_score - previous_validation_score < 0 THEN "decreased"
         ELSE "unchanged"
    ELSE "none"

\* lines 982-993: the report returned at the iteration cap
ForcedReport(current_iteration, previous_validation_score) ==
    [NoReport EXCEPT !.current_iteration = current_iteration,
                     !.previous_validation_score = previous_validation_score,
                     !.completeness_score = 80, !.validation_passed = TRUE,
                     !.forced = TRUE, !.specific_feedback = "max_iterations_reached"]

\* lines 1018-1039: the validation agent's report is returned as it is; the
\* agent is given the accumulator and target_data only, its feedback and its
\* missing fields are its own (there are some exactly when it fails the data)
AgentReport(current_iteration, previous_validation_score, score, passed) ==
    [NoReport EXCEPT !.current_iteration = current_iteration,
                     !.previous_validation_score = previous_validation_score,
                     !.completeness_score = score, !.validation_passed = passed,
                     !.parsed = TRUE, !.consulted = TRUE,
                     !.specific_feedback = "validation_agent",
                     !.critical_fields_missing = ~passed,
                     !.retry_recommendations = ~passed,
                     !.score_log = ScoreLog(previous_validation_score, score)]

\* the call ended in an exception: json.loads (line 1003) or the agent (line 1018)
RaisedReport(current_iteration, previous_validation_score, json_ok) ==
    [NoReport EXCEPT !.current_iteration = current_iteration,
                     !.previous_validation_score = previous_validation_score,
                     !.raised = TRUE, !.parsed = json_ok, !.consulted = json_ok]

Round(report) ==
    [current_iteration |-> report.current_iteration,
     previous_validation_score |-> report.previous_validation_score,
     completeness_score |-> report.completeness_score]

\* the call continues the rounds before it: it passes the next round number
\* and the score the round before it reported
InSequence(rs, round) ==
    /\ round.current_iteration = Len(rs) + 1
    /\ round.previous_validation_score =
           (IF rs = <<>> THEN 0 ELSE rs[Len(rs)].completeness_score)

PushRound(rs, round) ==
    IF InSequence(rs, round) THEN Append(rs, round)
    ELSE IF InSequence(<<>>, round) THEN <<round>>
    ELSE <<>>

\* One whole tool call; the caller supplies community_data_json (json_ok: it
\* parses), current_iteration and previous_validation_score; the validation
\* agent decides score and verdict or raises (ValidationAgent.validate_extraction
\* re-raises).  validator_score and json_ok are kept with the report to tell
\* what the call was given.
validate_extraction_data(current_iteration, previous_validation_score, json_ok, score, passed, raises) ==
    /\ runStatus = "running"
    /\ validateCalls < MaxValidateCalls
    /\ validateCalls' = validateCalls + 1
    /\ LET report ==
             IF AtIterationCap(current_iteration)
               THEN ForcedReport(current_iteration, previous_validation_score)
             ELSE IF ~json_ok \/ raises
               THEN RaisedReport(current_iteration, previous_validation_score, json_ok)
             ELSE AgentReport(current_iteration, previous_validation_score, score, passed)
       IN /\ lastReport' = [report EXCEPT !.json_ok = json_ok, !.validator_score = score]
          /\ rounds' = IF report.raised THEN <<>> ELSE PushRound(rounds, Round(report))
          /\ validatorCalls' = IF report.consulted THEN validatorCalls + 1
                                                   ELSE validatorCalls
          /\ runStatus' = IF report.raised THEN "failed" ELSE runStatus
    /\ UNCHANGED <<mergeVars, processed_urls, specialistCalls, lastCall, toolCalls,
                   scraperVars, agentVars, serviceVars, dbVars, taskVars, inflight, viewVars>>

(***************************************************************************)
(* DjangoWebScraper (src/utils/web_scraper.py): navigation discovery       *)
(*                                                                         *)
(* A URL is a record of scheme, netloc and path.  An href is the same      *)
(* record with empty parts where the text has none: "/fees/" has no scheme *)
(* and no netloc, "//evil.test/fees/" has no scheme.  Paths and link texts *)
(* are drawn from a few strings; what the code computes from a string      *)
(* (lower(), title(), the slug, a substring test) is a table over them.    *)
(***************************************************************************)
SeedUrl == [scheme |-> "https", netloc |-> "x.test", path |-> "/"]

Href(scheme, netloc, path) == [scheme |-> scheme, netloc |-> netloc, path |-> path]

NoHref == Href("", "", "")

Hrefs == {Href("", "", "/floor-plans/"),
          Href("https", "x.test", "/floor-plans/"),
          Href("", "evil.test", "/floor-plans/"),
          Href("http", "x.test", "/fees/"),
          Href("", "", "/fees/"),
          Href("", "", "/about/"),
          Href("mailto", "", "leasing@x.test"),
          Href("", "", "#top"),
          NoHref}

\* urljoin(base_url, path) for a path with no scheme and no netloc
JoinPath(base_path, path) ==
    IF path \in {"/floor-plans/", "/fees/", "/about/"} THEN path
    ELSE IF path = "fees" /\ base_path = "/" THEN "/fees"
    ELSE base_path

\* _resolve_url: None for an empty href, javascript:, mailto:, tel: and
\* fragment-only hrefs, and for a result without scheme or netloc; else urljoin
resolve_url(href, base_url) ==
    IF href = NoHref \/ href.scheme \in {"javascript", "mailto", "tel"} THEN None
    ELSE IF href.scheme = "" /\ href.netloc = "" /\ href.path = "#top" THEN None
    ELSE LET absolute_url ==
                 IF href.scheme # "" THEN href
                 ELSE IF href.netloc # ""
                   THEN Href(base_url.scheme, href.netloc, href.path)
                 ELSE Href(base_url.scheme, base_url.netloc,
                           JoinPath(base_url.path, href.path))
         IN IF absolute_url.scheme = "" \/ absolute_url.netloc = "" THEN None
            ELSE Some(absolute_url)

\* _get_base_domain: f"{parsed.scheme}://{parsed.netloc}"
get_base_domain(url) == <<url.scheme, url.netloc>>

is_same_domain_any(url, base_domain) == TRUE

is_same_domain(url, base_domain) == <<url.scheme, url.netloc>> = base_domain

AlreadyFoundNever(url, found_links) == FALSE

\* absolute_url in found_links
AlreadyFound(url, found_links) == url \in found_links

Texts == {"Floor Plans", "Fees", "About", "Login", ""}

\* position of a text in Python's string order
TextRank(text) ==
    CASE text = "" -> 0
      [] text = "About" -> 1
      [] text = "Fees" -> 2
      [] text = "Floor Plans" -> 3
      [] text = "Login" -> 4

\* _should_skip_link: a skip pattern occurs in the URL or in the text
should_skip_link(url, text) == text = "Login" \/ url.path = "#top"

\* _should_skip_navigation_text
should_skip_navigation_text(text) == text \in {"", "Login"}

\* _infer_url_from_text: the mapping table, then the slug of the text
infer_url_from_text(text, base_url) ==
    IF text = "" THEN None
    ELSE IF text = "Floor Plans" THEN resolve_url(Href("", "", "/floor-plans/"), base_url)
    ELSE IF text = "Fees" THEN resolve_url(Href("", "", "/fees/"), base_url)
    ELSE IF text = "About" THEN resolve_url(Href("", "", "/about/"), base_url)
    ELSE None

\* match.strip('/').split('/')[-1].replace('-', ' ').title()
NavText(match) ==
    IF match.path = "/floor-plans/" THEN "Floor Plans"
    ELSE IF match.path \in {"/fees/", "fees"} THEN "Fees"
    ELSE "Page"

\* match.startswith('/')
StartsWithSlash(match) ==
    /\ match.scheme = ""
    /\ match.netloc # "" \/ match.path \in {"/floor-plans/", "/fees/", "/about/"}

Anchor(href, text, region) == [href |-> href, text |-> text, region |-> region]

Anchors == {Anchor(Href("", "", "/floor-plans/"), "Floor Plans", "nav"),
            Anchor(Href("https", "x.test", "/floor-plans/"), "Floor Plans", "main"),
            Anchor(Href("", "evil.test", "/floor-plans/"), "Floor Plans", "nav"),
            Anchor(Href("http", "x.test", "/fees/"), "Fees", "main"),
            Anchor(Href("", "", "/fees/"), "Fees", "main"),
            Anchor(Href("", "", "/fees/"), "", "nav"),
            Anchor(Href("mailto", "", "leasing@x.test"), "About", "nav"),
            Anchor(Href("", "", "/floor-plans/"), "Fees", "main"),
            Anchor(Href("", "", "/about/"), "About", "nav")}

Clickable(data_url, text, has_anchor) ==
    [data_url |-> data_url, text |-> text, has_anchor |-> has_anchor]

Clickables == {Clickable(NoHref, "Floor Plans", FALSE),
               Clickable(NoHref, "Floor Plans", TRUE),
               Clickable(Href("", "evil.test", "/floor-plans/"), "About", FALSE),
               Clickable(Href("", "", "/fees/"), "Fees", FALSE)}

Matches == {Href("", "", "/floor-plans/"),
            Href("", "evil.test", "/floor-plans/"),
            Href("https", "x.test", "/fees/"),
            Href("", "", "fees")}

SeqsUpTo(S, n) == UNION {[1..k -> S] : k \in 0..n}

Pages == [anchors : SeqsUpTo(Anchors, MaxAnchors),
          clickables : SeqsUpTo(Clickables, MaxClickables),
          matches : SeqsUpTo(Matches, MaxMatches)]

NoPage == [anchors |-> <<>>, clickables |-> <<>>, matches |-> <<>>]

Link(text, url, selector_type, extraction_method) ==
    [text |-> text, url |-> url, selector_type |-> selector_type,
     extraction_method |-> extraction_method]

\* the links appended so far and found_links
NoLinks == [navigation_links |-> <<>>, found_links |-> {}]

AddLink(st, link) ==
    [navigation_links |-> Append(st.navigation_links, link),
     found_links |-> st.found_links \cup {link.url}]

\* one <a> of _extract_traditional_links
TraditionalLink(link, base_url, base_domain, st) ==
    LET absolute_url == resolve_url(link.href, base_url)
    IN IF link.href = NoHref THEN st
       ELSE IF absolute_url = None THEN st
       ELSE IF AlreadyFound(absolute_url[1], st.found_links) THEN st
       ELSE IF ~is_same_domain(absolute_url[1], base_domain) THEN st
       ELSE IF link.text = "" THEN st
       ELSE IF should_skip_link(absolute_url[1], link.text) THEN st
       ELSE AddLink(st, Link(link.text, absolute_url[1],
                             IF link.region = "nav" THEN "navigation" ELSE "content",
                             "none"))

RECURSIVE TraditionalLinks(_, _, _, _)
TraditionalLinks(links, base_url, base_domain, st) ==
    IF links = <<>> THEN st
    ELSE TraditionalLinks(Tail(links), base_url, base_domain,
                          TraditionalLink(Head(links), base_url, base_domain, st))

InNav(link) == link.region = "nav"

InMain(link) == link.region = "main"

\* nav_selectors are tried before content_selectors
extract_traditional_links(soup, base_url, base_domain, st) ==
    TraditionalLinks(SelectSeq(soup.anchors, InNav) \o SelectSeq(soup.anchors, InMain),
                     base_url, base_domain, st)

\* one element of _extract_modern_navigation
ModernLink(element, base_url, base_domain, st) ==
    IF element.has_anchor THEN st
    ELSE IF element.text = "" THEN st
    ELSE IF should_skip_navigation_text(element.text) THEN st
    ELSE LET data_url == IF element.data_url = NoHref THEN None
                         ELSE resolve_url(element.data_url, base_url)
             nav_url == IF data_url = None
                          THEN infer_url_from_text(element.text, base_url)
                          ELSE data_url
         IN IF nav_url # None /\ ~AlreadyFound(nav_url[1], st.found_links)
                 /\ is_same_domain(nav_url[1], base_domain)
            THEN AddLink(st, Link(element.text, nav_url[1], "navigation",
                                  "modern_navigation"))
            ELSE st

RECURSIVE extract_modern_navigation(_, _, _, _)
extract_modern_navigation(elements, base_url, base_domain, st) ==
    IF elements = <<>> THEN st
    ELSE extract_modern_navigation(Tail(elements), base_url, base_domain,
                                   ModernLink(Head(elements), base_url, base_domain, st))

\* one route-pattern match of _extract_js_navigation
JsLink(match, base_url, base_domain, st) ==
    IF match # NoHref /\ StartsWithSlash(match)
    THEN LET absolute_url == resolve_url(match, base_url)
         IN IF absolute_url # None /\ ~AlreadyFound(absolute_url[1], st.found_links)
                 /\ is_same_domain(absolute_url[1], base_domain)
            THEN AddLink(st, Link(NavText(match), absolute_url[1], "navigation",
                                  "javascript"))
            ELSE st
    ELSE st

RECURSIVE extract_js_navigation(_, _, _, _)
extract_js_navigation(matches, base_url, base_domain, st) ==
    IF matches = <<>> THEN st
    ELSE extract_js_navigation(Tail(matches), base_url, base_domain,
                               JsLink(Head(matches), base_url, base_domain, st))

\* the sort key (x['selector_type'] != 'navigation', x['text']), False < True
KeyLess(a, b) ==
    LET ka == IF a.selector_type # "navigation" THEN 1 ELSE 0
        kb == IF b.selector_type # "navigation" THEN 1 ELSE 0
    IN ka < kb \/ (ka = kb /\ TextRank(a.text) < TextRank(b.text))

\* insert x after the entries that are not greater: list.sort is stable
RECURSIVE InsertSorted(_, _)
InsertSorted(sorted, x) ==
    IF sorted = <<>> THEN <<x>>
    ELSE IF KeyLess(x, Head(sorted)) THEN <<x>> \o sorted
    ELSE <<Head(sorted)>> \o InsertSorted(Tail(sorted), x)

RECURSIVE SortLinks(_, _)
SortLinks(links, sorted) ==
    IF links = <<>> THEN sorted
    ELSE SortLinks(Tail(links), InsertSorted(sorted, Head(links)))

\* extract_navigation_links: fetch the seed, run the three strategies over one
\* found_links set, sort; any exception (the fetch's) gives an empty list
extract_navigation_links(url, fetched, soup) ==
    IF ~fetched THEN <<>>
    ELSE LET base_domain == get_base_domain(url)
             traditional == extract_traditional_links(soup, url, base_domain, NoLinks)
             modern == extract_modern_navigation(soup.clickables, url, base_domain,
                                                 traditional)
             js == extract_js_navigation(soup.matches, url, base_domain, modern)
         IN SortLinks(js.navigation_links, <<>>)

\* keyword in url.lower() or keyword in text.lower(), floor-plan keywords
IsFloorPlanLink(link) == link.url.path = "/floor-plans/"

\* the same for the fee keywords
IsFeeLink(link) == link.url.path \in {"/fees/", "/fees"} \/ link.text = "Fees"

IsCommunityLink(link) == ~IsFloorPlanLink(link) /\ ~IsFeeLink(link)

\* the fee test as an `if` of its own
IsFeeOnlyLinkAny(link) == IsFeeLink(link)

\* the fee test is the `elif` of the floor-plan test
IsFeeOnlyLink(link) == ~IsFloorPlanLink(link) /\ IsFeeLink(link)

\* what the environment does with the seed URL: "ok" (the page renders as a
\* soup), "fetch_error" (fetch_and_render raises) or "launch_error" (the
\* scraper's browser cannot be started)
Sites == {[outcome |-> "ok", page |-> pg] : pg \in Pages}
            \cup {[outcome |-> o, page |-> NoPage] : o \in {"fetch_error", "launch_error"}}

NoSite == [outcome |-> "ok", page |-> NoPage]

NoDiscovery == [called |-> FALSE,
                nav_links |-> <<>>, floor_plan_urls |-> <<>>, fee_urls |-> <<>>,
                community_urls |-> <<>>, error |-> FALSE]

\* The discover_navigation tool called with the seed URL: every exception is
\* caught and answered with empty lists and an 'error' entry.
discover_navigation(website_url) ==
    /\ runStatus = "running"
    /\ LET nav_links == IF site.outcome = "launch_error" THEN <<>>
                        ELSE extract_navigation_links(website_url, site.outcome = "ok",
                                                      site.page)
       IN lastDiscovery' =
            [called |-> TRUE,
             nav_links |-> nav_links,
             floor_plan_urls |-> SelectSeq(nav_links, IsFloorPlanLink),
             fee_urls |-> SelectSeq(nav_links, IsFeeOnlyLink),
             community_urls |-> SelectSeq(nav_links, IsCommunityLink),
             error |-> site.outcome = "launch_error"]
    /\ UNCHANGED <<mergeVars, toolVars, validateVars, site, lastScrape, scraper,
                   agentVars, serviceVars, dbVars, taskVars, inflight, viewVars>>

(***************************************************************************)
(* DjangoWebScraper.scrape_url_to_content                                  *)
(***************************************************************************)
min_html_length == 100

Titles == {"Just a moment...", "Floor Plans"}

Lengths == {50, 100, 500}

\* what the browser gives for the URL: goto_ok (page.goto and page.content
\* succeed), the title, len(html.strip()), whether BeautifulSoup finds a tag,
\* whether clean_html and extract_meaningful_elements leave elements, and the
\* length of the cleaned text
RenderedPages ==
    {pg \in [goto_ok : BOOLEAN, title : Titles, html_length : Lengths,
             parses : BOOLEAN, has_elements : BOOLEAN, text_length : Lengths] :
        /\ pg.text_length <= pg.html_length
        /\ pg.has_elements => pg.parses}

NoRendered == [goto_ok |-> FALSE, title |-> "Floor Plans", html_length |-> 50,
               parses |-> FALSE, has_elements |-> FALSE, text_length |-> 50]

\* validate_url
validate_url(pg) == pg.goto_ok /\ pg.html_length > min_html_length

\* fetch_and_render returns a soup (it raises otherwise)
fetch_and_render(pg) ==
    pg.goto_ok /\ ~(pg.html_length < min_html_length) /\ pg.parses

NoScrape == [called |-> FALSE, page |-> NoRendered, validate_first |-> FALSE,
             returned |-> "none", challenge_detected |-> FALSE,
             render_attempts |-> 0]

\* a resource is "none" (never acquired), "open" or "closed"
NewScraper == [phase |-> "new", playwright |-> "none", browser |-> "none",
               context |-> "none", open_pages |-> 0, scrapes |-> 0]

\* __aenter__: start Playwright, launch the browser, open the context; fault
\* names the step that raises ("none": no step does).  When __aenter__ raises
\* the `async with` body and __aexit__ are not run.
scraper_enter(fault) ==
    /\ scraper.phase = "new"
    /\ scraper' =
         [scraper EXCEPT
            !.phase = IF fault = "none" THEN "entered" ELSE "enter_failed",
            !.playwright = IF fault = "playwright" THEN "none" ELSE "open",
            !.browser = IF fault \in {"playwright", "browser"} THEN "none" ELSE "open",
            !.context = IF fault = "none" THEN "open" ELSE "none"]
    /\ UNCHANGED <<mergeVars, toolVars, validateVars, site, lastDiscovery, lastScrape,
                   agentVars, serviceVars, dbVars, taskVars, inflight, viewVars>>

\* pages left open by validate_url: page.close() follows goto and content()
\* with no finally, so a goto that raises leaves the page open
ValidateLeavesOpen(pg) == IF pg.goto_ok THEN 0 ELSE 1

\* pages left open by _render_with_playwright: the page is closed in finally
RenderLeavesOpen(pg) == 0

\* calls of _render_with_playwright made by one scrape_url_to_content call:
\* fetch_and_render renders once and nothing reads max_retries or retry_delay
RenderAttempts(pg, validate_first) ==
    IF validate_first /\ ~validate_url(pg) THEN 0 ELSE 1

\* returned: "content" (a string of the page's content) or "none" (None)
scrape_url_to_content(pg, validate_first) ==
    /\ scraper.phase = "entered"
    /\ scraper.scrapes < MaxScrapes
    /\ lastScrape' =
         [called |-> TRUE, page |-> pg, validate_first |-> validate_first,
          returned |->
             IF validate_first /\ ~validate_url(pg) THEN "none"
             ELSE IF ~fetch_and_render(pg) THEN "none"
             ELSE IF ~pg.has_elements
               THEN IF pg.text_length > min_html_length THEN "content" ELSE "none"
             ELSE "content",
          challenge_detected |-> FALSE,
          render_attempts |-> RenderAttempts(pg, validate_first)]
    /\ scraper' =
         [scraper EXCEPT
            !.scrapes = @ + 1,
            !.open_pages = @ + (IF validate_first THEN ValidateLeavesOpen(pg) ELSE 0)
                             + (IF RenderAttempts(pg, validate_first) > 0
                                THEN RenderLeavesOpen(pg) ELSE 0)]
    /\ UNCHANGED <<mergeVars, toolVars, validateVars, site, lastDiscovery, agentVars, serviceVars, dbVars, taskVars, inflight, viewVars>>

\* __aexit__: context.close(), browser.close(), playwright.stop() inside one
\* try; fault names the close that raises, which skips the closes after it
\* (the exception is logged).  Closing the context closes its pages.
scraper_exit(fault) ==
    /\ scraper.phase = "entered"
    /\ scraper' =
         [scraper EXCEPT
            !.phase = "exited",
            !.context = IF fault = "context" THEN "open" ELSE "closed",
            !.open_pages = IF fault = "context" THEN @ ELSE 0,
            !.browser = IF fault \in {"context", "browser"} THEN "open" ELSE "closed",
            !.playwright = IF fault = "none" THEN "closed" ELSE "open"]
    /\ UNCHANGED <<mergeVars, toolVars, validateVars, site, lastDiscovery, lastScrape,
                   agentVars, serviceVars, dbVars, taskVars, inflight, viewVars>>

(***************************************************************************)
(* orchestrate_extraction                                                  *)
(***************************************************************************)
\* the target_data argument: None, {} or a dict of known fields
TargetData == {None, Some({}), Some({"name"})}

NoSpecialistCalls == [u \in URLs |-> [plain |-> 0, forced |-> 0]]

\* what a run finds on the agent when it starts
Run(urls, target) == [processed_urls |-> urls, target_data |-> target]

NoOrchestration == [ended |-> "no", final_validation_score |-> 0,
                    quality_assessment |-> "none", areas_needing_improvement |-> FALSE]

\* _assess_data_quality
assess_data_quality(score) ==
    IF score >= 90 THEN "Excellent"
    ELSE IF score >= 80 THEN "Good"
    ELSE IF score >= 70 THEN "Fair"
    ELSE IF score >= 60 THEN "Poor"
    ELSE "Very Poor"

\* the ValidationReport that orchestrate_extraction builds for its result
FinalValidationReport ==
    [NoReport EXCEPT !.completeness_score = 85, !.validation_passed = TRUE]

\* The end of orchestrate_extraction: agent.run has returned the final
\* CommunityInformation and the OrchestrationResult is built around it, or
\* agent.run has raised and the exception is re-raised.
orchestrate_extraction_ends ==
    /\ orchestration.ended = "no"
    /\ IF runStatus = "failed"
       THEN /\ orchestration' = [NoOrchestration EXCEPT !.ended = "raised"]
            /\ UNCHANGED runStatus
       ELSE /\ orchestration' =
                 [ended |-> "returned",
                  final_validation_score |-> FinalValidationReport.completeness_score,
                  quality_assessment |->
                      assess_data_quality(FinalValidationReport.completeness_score),
                  areas_needing_improvement |->
                      FinalValidationReport.critical_fields_missing]
            /\ runStatus' = "finished"
    /\ UNCHANGED <<mergeVars, processed_urls, specialistCalls, lastCall, toolCalls,
                   validateVars, scraperVars, target_data, runs, serviceVars, dbVars, taskVars, inflight, viewVars>>

\* A further call of orchestrate_extraction on the same agent, made when the
\* run before it has returned or raised: it stores target_data (and the
\* default max_validation_iterations) on the agent and starts agent.run with
\* a new conversation; processed_urls is created in __init__ only.
orchestrate_extraction(target) ==
    /\ Len(runs) < MaxRuns
    /\ target_data' = IF target = None THEN {} ELSE target[1]
    /\ runs' = Append(runs, Run(processed_urls, target_data'))
    /\ orchestration' = NoOrchestration
    /\ runStatus' = "running"
    /\ acc' = EmptyDict /\ last' = NoMerge /\ mergeCount' = 0
    /\ mergeCall' = NoMergeCall
    /\ UNCHANGED planMerges
    /\ specialistCalls' = NoSpecialistCalls
    /\ lastCall' = NoCall /\ toolCalls' = 0
    /\ validatorCalls' = 0 /\ validateCalls' = 0
    /\ lastReport' = NoReport /\ rounds' = <<>>
    /\ lastDiscovery' = NoDiscovery /\ lastScrape' = NoScrape
    /\ UNCHANGED <<processed_urls, site, scraper, serviceVars, dbVars, taskVars, inflight, viewVars>>

(***************************************************************************)
(* MultiProviderAIService (src/utils/ai_integration/service.py)            *)
(***************************************************************************)
\* an exception is its class and its message
Error(class, message) == [class |-> class, message |-> message]

NoError == Error("none", "")

Errors == [class : {"Exception", "ModelRetry", "UserError"},
           message : {"Rate limit exceeded", "Request timeout", "Invalid input",
                      "Primary failed"}]

\* what an agent's run does: it returns data (NoError) or raises an error
Outcomes == {NoError} \cup Errors

\* a retryable pattern occurs in str(error).lower()
HasRetryablePattern(error) ==
    error.message \in {"Rate limit exceeded", "Request timeout"}

\* _is_retryable_error: the message patterns, then ModelRetry, then UserError,
\* then the default
is_retryable_error(error) ==
    IF HasRetryablePattern(error) THEN TRUE
    ELSE IF error.class = "ModelRetry" THEN TRUE
    ELSE IF error.class = "UserError" THEN FALSE
    ELSE TRUE

NoService == [built |-> FALSE, primary_agent |-> FALSE, fallback_agent |-> FALSE]

\* __init__: an agent that cannot be initialised is None; with neither agent
\* the constructor raises AIServiceUnavailableError and there is no service
MultiProviderAIService(primary_ok, fallback_ok) ==
    /\ ~service.built
    /\ service' = IF ~primary_ok /\ ~fallback_ok THEN NoService
                  ELSE [built |-> TRUE, primary_agent |-> primary_ok,
                        fallback_agent |-> fallback_ok]
    /\ UNCHANGED <<mergeVars, toolVars, validateVars, scraperVars, agentVars, lastRun, dbVars, taskVars, inflight, viewVars>>

NoRun == [called |-> FALSE, calls |-> <<>>, primary |-> NoError, fallback |-> NoError,
          retryable |-> FALSE, returned |-> "none", raised |-> "none"]

\* after a failed primary run the fallback is tried whatever the error
GoesOnToFallbackAlways(error) == TRUE

\* after a failed primary run, run goes on to the fallback part only for a
\* retryable error; otherwise it raises AIServiceError at once
GoesOnToFallback(error) == is_retryable_error(error)

\* run, when the primary agent's run raised `primary`
RunAfterPrimaryFailed(primary, fallback) ==
    IF ~GoesOnToFallback(primary)
    THEN [NoRun EXCEPT !.called = TRUE, !.calls = <<"primary">>, !.primary = primary,
                       !.retryable = is_retryable_error(primary),
                       !.raised = "AIServiceError"]
    ELSE IF ~service.fallback_agent
    THEN [NoRun EXCEPT !.called = TRUE, !.calls = <<"primary">>, !.primary = primary,
                       !.retryable = is_retryable_error(primary),
                       !.raised = "AIServiceUnavailableError"]
    ELSE [NoRun EXCEPT !.called = TRUE, !.calls = <<"primary", "fallback">>,
                       !.primary = primary, !.fallback = fallback,
                       !.retryable = is_retryable_error(primary),
                       !.returned = IF fallback = NoError THEN "fallback" ELSE "none",
                       !.raised = IF fallback = NoError THEN "none"
                                                        ELSE "AIServiceError"]

\* One whole run call; primary and fallback are what the agents' runs would
\* do if called.
run(primary, fallback) ==
    /\ service.built
    /\ lastRun' =
         IF service.primary_agent
         THEN IF primary = NoError
              THEN [NoRun EXCEPT !.called = TRUE, !.calls = <<"primary">>,
                                 !.returned = "primary"]
              ELSE RunAfterPrimaryFailed(primary, fallback)
         ELSE IF service.fallback_agent
              THEN [NoRun EXCEPT !.called = TRUE, !.calls = <<"fallback">>,
                                 !.fallback = fallback,
                                 !.returned = IF fallback = NoError THEN "fallback"
                                                                    ELSE "none",
                                 !.raised = IF fallback = NoError THEN "none"
                                                                  ELSE "AIServiceError"]
              ELSE [NoRun EXCEPT !.called = TRUE, !.raised = "AIServiceUnavailableError"]
    /\ UNCHANGED <<mergeVars, toolVars, validateVars, scraperVars, agentVars, service, dbVars, taskVars, inflight, viewVars>>

(***************************************************************************)
(* Persistence (src/apps/shops/tasks.py)                                   *)
(***************************************************************************)
PageData(name, overview, url) == [name |-> name, overview |-> overview, url |-> url]

PageDatas == {PageData("Old Page", "Old page overview", "https://old.com/page"),
              PageData("New Page", "New page overview", "https://new.com/page"),
              PageData("old page", "", ""),
              PageData("Old Page", "", "https://old.com/moved")}

\* a CommunityInformation: name, overview and community_pages
CommunityDatas ==
    [name : {"Old Name", "New Community"}, overview : {"New overview"},
     community_pages : SeqsUpTo(PageDatas, MaxNewPages)]

NoCommunityData == [name |-> "", overview |-> "", community_pages |-> <<>>]

\* name__iexact compares without case (the URLs of PageDatas differ in more
\* than case, so url__iexact is equality on them)
LowerName(name) == IF name = "Old Page" THEN "old page"
                   ELSE IF name = "New Page" THEN "new page"
                   ELSE name

\* CommunityPage.Meta.ordering = ["name"]
NameRank(name) == IF name = "New Page" THEN 1
                  ELSE IF name = "Old Page" THEN 2
                  ELSE 3

EmptyDb == [shop_result |-> FALSE, community_info |-> FALSE, name |-> "",
            overview |-> "", pages |-> <<>>, next_id |-> 1]

\* the row .first() returns among the rows at the positions `found`: the
\* first in name order, then in id order
First(pages, found) ==
    CHOOSE i \in found : \A j \in found :
        \/ NameRank(pages[i].name) < NameRank(pages[j].name)
        \/ NameRank(pages[i].name) = NameRank(pages[j].name) /\ pages[i].id <= pages[j].id

\* CommunityPage.objects.create(community_info=..., name, overview, url)
CreatePage(d, page_data) ==
    [d EXCEPT !.pages = Append(@, [id |-> d.next_id, name |-> page_data.name,
                                   overview |-> page_data.overview,
                                   url |-> page_data.url]),
              !.next_id = @ + 1]

\* one page of _merge_community_pages: look the page up by URL, then by
\* name; fill the overview and the URL of the row found if they are empty;
\* create a row if none is found
MergeCommunityPage(d, page_data) ==
    LET by_url == IF page_data.url # ""
                  THEN {i \in DOMAIN d.pages : d.pages[i].url = page_data.url}
                  ELSE {}
        by_name == IF by_url = {} /\ page_data.name # ""
                   THEN {i \in DOMAIN d.pages :
                            LowerName(d.pages[i].name) = LowerName(page_data.name)}
                   ELSE {}
        found == IF by_url # {} THEN by_url ELSE by_name
    IN IF found = {} THEN CreatePage(d, page_data)
       ELSE LET i == First(d.pages, found)
                existing_page == d.pages[i]
            IN [d EXCEPT !.pages[i] =
                  [existing_page EXCEPT
                     !.overview = IF page_data.overview # "" /\ existing_page.overview = ""
                                  THEN page_data.overview ELSE @,
                     !.url = IF page_data.url # "" /\ existing_page.url = ""
                             THEN page_data.url ELSE @]]

RECURSIVE merge_community_pages(_, _)
merge_community_pages(d, new_pages_data) ==
    IF new_pages_data = <<>> THEN d
    ELSE merge_community_pages(MergeCommunityPage(d, Head(new_pages_data)),
                               Tail(new_pages_data))

RECURSIVE CreatePages(_, _)
CreatePages(d, new_pages_data) ==
    IF new_pages_data = <<>> THEN d
    ELSE CreatePages(CreatePage(d, Head(new_pages_data)), Tail(new_pages_data))

\* what _parse_and_save_community_info does with the pages: a CommunityInfo
\* just created gets every page of the data, an existing one is merged into
SavePages(d, created, new_pages_data) ==
    IF created THEN CreatePages(d, new_pages_data)
    ELSE merge_community_pages(d, new_pages_data)

\* _parse_and_save_community_info on the rows d of a ShopResult:
\* update_or_create writes the scalar fields, then the pages
ParseAndSave(d, community_info_data) ==
    SavePages([d EXCEPT !.community_info = TRUE,
                        !.name = community_info_data.name,
                        !.overview = community_info_data.overview],
              ~d.community_info, community_info_data.community_pages)

NoSave == [called |-> FALSE, created |-> FALSE, before |-> EmptyDb,
           data |-> NoCommunityData, saves |-> 0]

\* A call of _parse_and_save_community_info for the Shop's ShopResult, which
\* the caller has created.
parse_and_save_community_info(community_info_data) ==
    /\ lastSave.saves < MaxSaves
    /\ db' = ParseAndSave([db EXCEPT !.shop_result = TRUE], community_info_data)
    /\ lastSave' = [called |-> TRUE, created |-> ~db.community_info, before |-> db,
                    data |-> community_info_data, saves |-> lastSave.saves + 1]
    /\ UNCHANGED <<mergeVars, toolVars, validateVars, scraperVars, agentVars,
                   serviceVars, taskVars, inflight, viewVars>>

(***************************************************************************)
(* The Celery task (src/apps/shops/tasks.py)                               *)
(***************************************************************************)
max_retries == 3     \* RETRY_CONFIG["max_retries"]
retry_delay == 2     \* RETRY_CONFIG["retry_delay"], seconds
backoff_factor == 2  \* RETRY_CONFIG["backoff_factor"]

\* the row of the Shop table with the task's shop_id, if there is one
NewShop == [exists |-> TRUE, has_target |-> TRUE, status |-> "PENDING",
            start_time |-> FALSE, end_time |-> FALSE]

Shops == {NewShop, [NewShop EXCEPT !.has_target = FALSE],
          [NewShop EXCEPT !.exists = FALSE, !.has_target = FALSE]}

\* pc: queued, gathering, persisting, committed, failed, retrying, returned,
\* raised; retries is self.request.retries; retry_requests counts the
\* self.retry calls of the current execution; raised is what the current
\* execution raised
NoTask == [pc |-> "queued", retries |-> 0, retry_requests |-> 0, raised |-> "none",
           handled |-> FALSE, community_data |-> NoCommunityData,
           shop_before |-> NewShop, countdown |-> 0]

\* lines 381-400: look the shop and its target up, mark the shop IN_PROGRESS
task_start ==
    /\ task.pc = "queued"
    /\ IF ~shop.exists
       THEN /\ task' = [task EXCEPT !.pc = "returned", !.shop_before = shop]
            /\ UNCHANGED shop
       ELSE IF ~shop.has_target
       THEN /\ shop' = [shop EXCEPT !.status = "ERROR", !.end_time = TRUE]
            /\ task' = [task EXCEPT !.pc = "returned", !.shop_before = shop]
       ELSE /\ shop' = [shop EXCEPT !.status = "IN_PROGRESS", !.start_time = TRUE]
            /\ task' = [task EXCEPT !.pc = "gathering", !.shop_before = shop]
    /\ UNCHANGED <<mergeVars, toolVars, validateVars, scraperVars, agentVars,
                   serviceVars, dbVars, inflight, viewVars>>

\* lines 402-456: the orchestrated extraction returns final_community_info
\* or raises
run_information_gathering(raises, community_data) ==
    /\ task.pc = "gathering"
    /\ task' = IF raises THEN [task EXCEPT !.pc = "failed"]
               ELSE [task EXCEPT !.pc = "persisting", !.community_data = community_data]
    /\ UNCHANGED <<mergeVars, toolVars, validateVars, scraperVars, agentVars,
                   serviceVars, dbVars, shop, inflight, viewVars>>

\* the task's position after the transaction.atomic() block is left
AfterTransactionAlways(raises) == "committed"
AfterTransaction(raises) == IF raises THEN "failed" ELSE "committed"

\* lines 458-475: get_or_create the ShopResult and save the community data
\* in one transaction, which is rolled back when the block raises
persist(raises) ==
    /\ task.pc = "persisting"
    /\ db' = IF raises THEN db
             ELSE ParseAndSave([db EXCEPT !.shop_result = TRUE], task.community_data)
    /\ task' = [task EXCEPT !.pc = AfterTransaction(raises)]
    /\ UNCHANGED <<mergeVars, toolVars, validateVars, scraperVars, agentVars,
                   serviceVars, lastSave, shop, inflight, viewVars>>

\* lines 477-483: mark the shop COMPLETED; a save that raises is handled as
\* any other failure
complete(save_raises) ==
    /\ task.pc = "committed"
    /\ IF save_raises
       THEN /\ task' = [task EXCEPT !.pc = "failed"]
            /\ UNCHANGED shop
       ELSE /\ shop' = [shop EXCEPT !.status = "COMPLETED", !.end_time = TRUE]
            /\ task' = [task EXCEPT !.pc = "returned"]
    /\ UNCHANGED <<mergeVars, toolVars, validateVars, scraperVars, agentVars,
                   serviceVars, dbVars, inflight, viewVars>>

\* what self.retry(exc=e) can do once request.retries + 1 exceeds
\* max_retries: Celery re-raises the exception it was given, and raises
\* MaxRetriesExceededError only when it was given none
RetryAtLimit == {"exc", "MaxRetriesExceededError"}

\* lines 506-508: the countdown passed to self.retry
RetryCountdown(retries) == retry_delay * backoff_factor ^ retries

\* lines 487-518: the except clause: mark the shop ERROR (a save that raises
\* is only logged), then ask Celery for a retry
handle_failure(save_raises, at_limit) ==
    /\ task.pc = "failed"
    /\ shop' = IF save_raises THEN shop
               ELSE [shop EXCEPT !.status = "ERROR", !.end_time = TRUE]
    /\ task' = IF task.retries + 1 > max_retries
               THEN IF at_limit = "MaxRetriesExceededError"
                    THEN [task EXCEPT !.pc = "returned", !.handled = TRUE,
                                      !.retry_requests = @ + 1,
                                      !.countdown = RetryCountdown(task.retries)]
                    ELSE [task EXCEPT !.pc = "raised", !.handled = TRUE,
                                      !.retry_requests = @ + 1, !.raised = "exc",
                                      !.countdown = RetryCountdown(task.retries)]
               ELSE [task EXCEPT !.pc = "retrying", !.handled = TRUE,
                                 !.retry_requests = @ + 1, !.raised = "Retry",
                                 !.countdown = RetryCountdown(task.retries)]
    /\ UNCHANGED <<mergeVars, toolVars, validateVars, scraperVars, agentVars,
                   serviceVars, dbVars, inflight, viewVars>>

\* Celery runs the task again after a Retry, with request.retries one higher
task_retry ==
    /\ task.pc = "retrying"
    /\ task' = [task EXCEPT !.pc = "queued", !.retries = @ + 1, !.retry_requests = 0,
                            !.raised = "none", !.handled = FALSE]
    /\ UNCHANGED <<mergeVars, toolVars, validateVars, scraperVars, agentVars,
                   serviceVars, dbVars, shop, inflight, viewVars>>

(***************************************************************************)
(* CancelShopView (src/apps/shops/views.py)                                *)
(***************************************************************************)
\* the statuses CancelShopView.post cancels
Cancellable == {"PENDING", "IN_PROGRESS"}

\* CancelShopView.post for the shop: a PENDING or IN_PROGRESS shop becomes
\* ERROR, any other shop is left alone; a shop id without a row is a 404
cancel_shop ==
    /\ shop.exists
    /\ IF shop.status \in Cancellable
       THEN /\ shop' = [shop EXCEPT !.status = "ERROR"]
            /\ cancelled' = TRUE
       ELSE UNCHANGED <<shop, cancelled>>
    /\ UNCHANGED <<mergeVars, toolVars, validateVars, scraperVars, agentVars,
                   serviceVars, dbVars, task, inflight, shops, requests>>

(***************************************************************************)
(* StartShopView (src/apps/targets/views.py) and the tasks of the shops it *)
(* creates, each task reduced to the status it writes                      *)
(***************************************************************************)
Requests == 1..MaxRequests

\* status__in=[Shop.Status.PENDING, Shop.Status.IN_PROGRESS]
ActiveShops(all) == {i \in DOMAIN all : all[i].status \in {"PENDING", "IN_PROGRESS"}}

\* lines 235-240: the query for a shop that is pending or running
start_shop_check(r) ==
    /\ requests[r] = "new"
    /\ requests' = [requests EXCEPT ![r] = IF ActiveShops(shops) # {} THEN "done"
                                          ELSE "create"]
    /\ UNCHANGED <<mergeVars, toolVars, validateVars, scraperVars, agentVars,
                   serviceVars, dbVars, taskVars, inflight, cancelled, shops>>

\* lines 243-264: create the shop as PENDING and queue its task; when the
\* broker cannot be reached the shop stays PENDING without a task
start_shop_create(r, broker_ok) ==
    /\ requests[r] = "create"
    /\ Len(shops) < MaxShops
    /\ shops' = Append(shops, [status |-> "PENDING",
                               pc |-> IF broker_ok THEN "queued" ELSE "none",
                               retries |-> 0])
    /\ requests' = [requests EXCEPT ![r] = "done"]
    /\ UNCHANGED <<mergeVars, toolVars, validateVars, scraperVars, agentVars,
                   serviceVars, dbVars, taskVars, inflight, cancelled>>

\* tasks.py lines 397-400: an execution marks its shop IN_PROGRESS
shop_task_start(i) ==
    /\ i \in DOMAIN shops
    /\ shops[i].pc = "queued"
    /\ shops' = [shops EXCEPT ![i].status = "IN_PROGRESS", ![i].pc = "running"]
    /\ UNCHANGED <<mergeVars, toolVars, validateVars, scraperVars, agentVars,
                   serviceVars, dbVars, taskVars, inflight, cancelled, requests>>

\* tasks.py lines 477-518: the execution ends with COMPLETED, or with ERROR
\* and a retry request, which Celery grants max_retries times
shop_task_end(i, ok) ==
    /\ i \in DOMAIN shops
    /\ shops[i].pc = "running"
    /\ shops' = IF ok
                THEN [shops EXCEPT ![i].status = "COMPLETED", ![i].pc = "returned"]
                ELSE [shops EXCEPT ![i].status = "ERROR",
                                   ![i].pc = IF shops[i].retries + 1 > max_retries
                                             THEN "returned" ELSE "retrying"]
    /\ UNCHANGED <<mergeVars, toolVars, validateVars, scraperVars, agentVars,
                   serviceVars, dbVars, taskVars, inflight, cancelled, requests>>

\* Celery runs the task of the shop again
shop_task_retry(i) ==
    /\ i \in DOMAIN shops
    /\ shops[i].pc = "retrying"
    /\ shops' = [shops EXCEPT ![i].pc = "queued", ![i].retries = @ + 1]
    /\ UNCHANGED <<mergeVars, toolVars, validateVars, scraperVars, agentVars,
                   serviceVars, dbVars, taskVars, inflight, cancelled, requests>>

(***************************************************************************)
(* The three floor plan merges: _intelligent_merge and                     *)
(* _merge_extraction_results (agents.py), _merge_floor_plans (tasks.py)    *)
(***************************************************************************)
PlanNames == {"2BR", "2br", "2BR ", "Studio"}

\* str.lower() and str.strip() on the plan names
LowerPlanName(name) == IF name = "2BR" THEN "2br"
                       ELSE IF name = "2BR " THEN "2br "
                       ELSE IF name = "Studio" THEN "studio"
                       ELSE name

StripName(name) == IF name = "2BR " THEN "2BR"
                   ELSE IF name = "2br " THEN "2br"
                   ELSE name

PlanInputs == {Plan(n, 2, ba, None, None, None, None) : n \in PlanNames, ba \in {1, 2}}

\* _intelligent_merge: the key (name, beds, baths) as it is written
SameInMemory(existing_plan, new_plan) == PlanKey(existing_plan) = PlanKey(new_plan)

\* _merge_extraction_results: both names lowered and stripped
SameInRetry(existing_plan, new_plan) ==
    /\ StripName(LowerPlanName(existing_plan.name)) = StripName(LowerPlanName(new_plan.name))
    /\ existing_plan.beds = new_plan.beds
    /\ existing_plan.baths = new_plan.baths

\* _merge_floor_plans: name__iexact against the stripped new name; the
\* stored name is the one the plan was created with
SamePersisted(existing_plan, new_plan) ==
    /\ LowerPlanName(existing_plan.name) = LowerPlanName(StripName(new_plan.name))
    /\ existing_plan.beds = new_plan.beds
    /\ existing_plan.baths = new_plan.baths

\* agents.py lines 1266-1280, for one new plan
merge_extraction_results(floor_plans, new_plan) ==
    IF \E i \in DOMAIN floor_plans : SameInRetry(floor_plans[i], new_plan)
    THEN floor_plans ELSE Append(floor_plans, new_plan)

\* tasks.py lines 83-90 and 139-153, for one new plan without details
merge_floor_plans(floor_plans, fp_data) ==
    IF \E i \in DOMAIN floor_plans : SamePersisted(floor_plans[i], fp_data)
    THEN floor_plans ELSE Append(floor_plans, fp_data)

NoPlanMerges == [memory |-> <<>>, retry |-> <<>>, persisted |-> <<>>,
                 before |-> <<>>, new |-> <<>>, count |-> 0]

\* One floor plan, as a partial of its own, goes through each merge.
merge_floor_plan(new_plan) ==
    /\ planMerges.count < MaxPlanMerges
    /\ planMerges' =
         [memory |-> MergePlans(planMerges.memory, <<new_plan>>, Len(planMerges.memory)),
          retry |-> merge_extraction_results(planMerges.retry, new_plan),
          persisted |-> merge_floor_plans(planMerges.persisted, new_plan),
          before |-> planMerges.memory,
          new |-> <<new_plan>>,
          count |-> planMerges.count + 1]
    /\ UNCHANGED <<acc, last, mergeCount, mergeCall, toolVars, validateVars, scraperVars,
                   agentVars, serviceVars, dbVars, taskVars, inflight, viewVars>>

InitRun ==
    /\ acc = EmptyDict
    /\ last = NoMerge
    /\ mergeCount = 0
    /\ mergeCall = NoMergeCall
    /\ planMerges = NoPlanMerges
    /\ cancelled = FALSE
    /\ shops = <<>>
    /\ requests = [r \in Requests |-> "new"]
    /\ processed_urls = {}
    /\ runStatus = "running"
    /\ specialistCalls = NoSpecialistCalls
    /\ lastCall = NoCall
    /\ toolCalls = 0
    /\ validatorCalls = 0
    /\ validateCalls = 0
    /\ lastReport = NoReport
    /\ rounds = <<>>
    /\ lastDiscovery = NoDiscovery
    /\ lastScrape = NoScrape
    /\ scraper = NewScraper
    /\ target_data = {}
    /\ runs = <<Run({}, {})>>
    /\ orchestration = NoOrchestration
    /\ service = NoService
    /\ lastRun = NoRun
    /\ db = EmptyDb
    /\ lastSave = NoSave
    /\ task = NoTask
    /\ inflight = [c \in Calls |-> Idle]

Init == InitRun /\ site = NoSite /\ shop = NewShop

\* the same start, in front of any seed page
InitNav == InitRun /\ site \in Sites /\ shop = NewShop

\* the same start, for any Shop table
InitTask == InitRun /\ site = NoSite /\ shop \in Shops

NextMerge == \E j \in JsonInputs : merge_community_data(j)

SpecMerge == Init /\ [][NextMerge]_vars

NextMergeCall ==
    \E current_data_json \in CurrentTexts, new_data_json \in NewTexts :
        merge_tool(current_data_json, new_data_json)

SpecMergeCall == Init /\ [][NextMergeCall]_vars

NextTools ==
    \/ \E u \in URLs, f \in BOOLEAN, r \in BOOLEAN : extract_floor_plans_from_url(u, f, r)
    \/ \E u \in URLs, f \in BOOLEAN, r \in BOOLEAN :
          extract_community_overview_from_url(u, f, r)
    \/ \E u \in URLs, f \in BOOLEAN, r \in BOOLEAN : extract_fees_from_url(u, f, r)

SpecTools == Init /\ [][NextTools]_vars

NextRuns ==
    \/ NextTools
    \/ \E target \in TargetData : orchestrate_extraction(target)

SpecRuns == Init /\ [][NextRuns]_vars

NextValidate ==
    \E i \in Iterations, prev \in PreviousScores, j \in BOOLEAN, sc \in Scores,
       ok \in BOOLEAN, r \in BOOLEAN :
        validate_extraction_data(i, prev, j, sc, ok, r)

SpecValidate == Init /\ [][NextValidate]_vars

NextResult ==
    \/ NextValidate
    \/ orchestrate_extraction_ends

SpecResult == Init /\ [][NextResult]_vars

NextService ==
    \/ \E primary_ok \in BOOLEAN, fallback_ok \in BOOLEAN :
          MultiProviderAIService(primary_ok, fallback_ok)
    \/ \E primary \in Outcomes, fallback \in Outcomes : run(primary, fallback)

SpecService == Init /\ [][NextService]_vars

NextConcurrent ==
    \/ \E c \in Calls, tool \in Tools, u \in URLs, f \in BOOLEAN : tool_check(c, tool, u, f)
    \/ \E c \in Calls, failed \in BOOLEAN : tool_mark(c, failed)

SpecConcurrent == Init /\ [][NextConcurrent]_vars

NextTask ==
    \/ task_start
    \/ \E raises \in BOOLEAN, community_data \in CommunityDatas :
          run_information_gathering(raises, community_data)
    \/ \E raises \in BOOLEAN : persist(raises)
    \/ \E save_raises \in BOOLEAN : complete(save_raises)
    \/ \E save_raises \in BOOLEAN, at_limit \in RetryAtLimit :
          handle_failure(save_raises, at_limit)
    \/ task_retry

SpecTask == InitTask /\ [][NextTask]_vars

NextCancel ==
    \/ NextTask
    \/ cancel_shop

SpecCancel == InitTask /\ [][NextCancel]_vars

NextShops ==
    \/ \E r \in Requests : start_shop_check(r)
    \/ \E r \in Requests, broker_ok \in BOOLEAN : start_shop_create(r, broker_ok)
    \/ \E i \in 1..MaxShops : shop_task_start(i)
    \/ \E i \in 1..MaxShops, ok \in BOOLEAN : shop_task_end(i, ok)
    \/ \E i \in 1..MaxShops : shop_task_retry(i)

SpecShops == Init /\ [][NextShops]_vars

NextPlans == \E new_plan \in PlanInputs : merge_floor_plan(new_plan)

SpecPlans == Init /\ [][NextPlans]_vars

NextPersist ==
    \E community_info_data \in CommunityDatas :
        parse_and_save_community_info(community_info_data)

SpecPersist == Init /\ [][NextPersist]_vars

NextNav == discover_navigation(SeedUrl)

SpecNav == InitNav /\ [][NextNav]_vars

NextScrape ==
    \/ \E fault \in {"none", "playwright", "browser", "context"} : scraper_enter(fault)
    \/ \E pg \in RenderedPages, validate_first \in BOOLEAN :
          scrape_url_to_content(pg, validate_first)
    \/ \E fault \in {"none", "context", "browser", "playwright"} : scraper_exit(fault)

SpecScrape == Init /\ [][NextScrape]_vars

(***************************************************************************)
(* Properties of the merge engine                                          *)
(***************************************************************************)
Merged == mergeCount > 0 /\ last.new.valid

\* str.lower() on the strings of the model
Lower(str) ==
    CASE str = "Application Fee" -> "application fee"
      [] str = "Application" -> "application"
      [] str = "Pet Fee" -> "pet fee"
      [] OTHER -> str

MergeIdempotent ==
    Merged => intelligent_merge(acc, last.new.obj) = acc

\* C3: no two fees of the accumulator have the same (fee_name, fee_category),
\* compared case-insensitively.
FeeKeysUnique ==
    \A i, j \in DOMAIN acc.fees :
        i # j => <<Lower(acc.fees[i].fee_name), Lower(acc.fees[i].fee_category)>>
                 # <<Lower(acc.fees[j].fee_name), Lower(acc.fees[j].fee_category)>>

\* the partials of the complementary-field scenario
ScenarioFirst == Full("floor_plans", <<PlanA>>, "")
ScenarioSecond == Full("floor_plans", <<PlanB>>, "")
ScenarioDone ==
    mergeCount = 2 /\ last.current = ScenarioFirst /\ last.new = Json(ScenarioSecond)

\* C6: from the empty accumulator, merging 1BR/1/1 with price 1500 and then
\* 1BR/1/1 with price 1500 and sqft 650 leaves exactly one 1BR/1/1 floor plan,
\* with price 1500 and sqft 650.
ComplementaryFields ==
    ScenarioDone =>
        /\ Cardinality({i \in DOMAIN acc.floor_plans :
                          PlanKey(acc.floor_plans[i]) = <<"1BR", 1, 1>>}) = 1
        /\ \A i \in DOMAIN acc.floor_plans :
              PlanKey(acc.floor_plans[i]) = <<"1BR", 1, 1>> =>
                /\ acc.floor_plans[i].min_rental_price = Some(1500)
                /\ acc.floor_plans[i].sqft = Some(650)

ComplementaryFieldsWitness == ScenarioDone /\ Len(acc.floor_plans) = 1

\* C7: a fill field of a floor plan that is not null before a merge (0 included)
\* has the same value after it.
FirstWriterWins ==
    mergeCount > 0 =>
        \A i \in DOMAIN last.current.floor_plans :
            \A f \in {FillFields[n] : n \in DOMAIN FillFields} :
                last.current.floor_plans[i][f] # None =>
                    acc.floor_plans[i][f] = last.current.floor_plans[i][f]

\* C8: after a merge, an existing entry whose optional field was empty has the
\* value of an incoming entry with the same identity key that had it: the
\* amount of a fee, the fill fields of a floor plan.
FillIfMissing ==
    Merged =>
        /\ \A i \in DOMAIN last.current.fees : \A j \in DOMAIN last.new.obj.fees :
              /\ FeeKey(last.current.fees[i]) = FeeKey(last.new.obj.fees[j])
              /\ last.current.fees[i].amount = None
              /\ TruthyNum(last.new.obj.fees[j].amount)
              => acc.fees[i].amount # None
        /\ \A i \in DOMAIN last.current.floor_plans :
           \A j \in DOMAIN last.new.obj.floor_plans :
           \A f \in {FillFields[n] : n \in DOMAIN FillFields} :
              /\ PlanKey(last.current.floor_plans[i]) = PlanKey(last.new.obj.floor_plans[j])
              /\ last.current.floor_plans[i][f] = None
              /\ Truthy(f, last.new.obj.floor_plans[j][f])
              => acc.floor_plans[i][f] # None

\* C9: no two floor plans of the accumulator have the same (name, beds, baths).
PlanKeysUnique ==
    \A i, j \in DOMAIN acc.floor_plans :
        i # j => PlanKey(acc.floor_plans[i]) # PlanKey(acc.floor_plans[j])

\* the identity of a page as the data model states it: the URL, or the name
\* when the URL is absent or empty
PageIdentity(page) ==
    IF page.url = None \/ page.url = Some("") THEN page.name ELSE page.url[1]

\* C10: no two pages of the accumulator have the same identity (URL, else
\* name), and every page of the merged partial is in the accumulator under
\* its identity.
PageIdentityUnique ==
    /\ \A i, j \in DOMAIN acc.community_pages :
          i # j => PageIdentity(acc.community_pages[i])
                   # PageIdentity(acc.community_pages[j])
    /\ Merged =>
          \A j \in DOMAIN last.new.obj.community_pages :
            \E i \in DOMAIN acc.community_pages :
              PageIdentity(acc.community_pages[i])
                = PageIdentity(last.new.obj.community_pages[j])

(***************************************************************************)
(* Properties of the extraction tools and of the validation tool           *)
(***************************************************************************)
\* C4: calls without force_rescrape start the specialist at most once per URL;
\* a call without force_rescrape for a processed URL returns the empty record
\* and starts no specialist; a specialist started on a processed URL was
\* started by a forced call.
UrlVisitedOnce ==
    /\ \A u \in URLs : specialistCalls[u].plain <= 1
    /\ (lastCall.wasProcessed /\ ~lastCall.force) =>
          (~lastCall.invoked /\ lastCall.returned = "empty")
    /\ (lastCall.wasProcessed /\ lastCall.invoked) => lastCall.force

\* a second call without force_rescrape met a URL whose specialist had run
UrlVisitedOnceWitness ==
    /\ lastCall.wasProcessed /\ ~lastCall.force /\ lastCall.returned = "empty"
    /\ specialistCalls[lastCall.url].plain = 1

\* C5: the validation agent is run in at most max_validation_iterations (3)
\* rounds of a run, whatever current_iteration the caller passes.
BoundedIteration == validatorCalls <= max_validation_iterations

\* C11: when a tool call that dispatched its URL to the specialist has ended,
\* the URL is in the processed-URL set, whether the specialist returned or
\* raised.
VisitedOnFailure ==
    lastCall.invoked => lastCall.url \in processed_urls

\* C14: a specialist failure on a URL leaves the run going: agent.run has not
\* been ended by it, so orchestrate_extraction can still return a result.
ExtractionFailureIsPerUrl ==
    lastCall.returned \in {"raised", "nothing"} => runStatus = "running"

\* the rounds of the regression scenario: rounds 1 and 2 reported 40 and 70,
\* each call passing its round number and the score of the round before, and
\* round 3 is called with previous score 70 when the validation agent has 55
\* for the accumulator
RegressionScenario ==
    /\ Len(rounds) = max_validation_iterations
    /\ rounds[1].completeness_score = 40
    /\ rounds[2].completeness_score = 70
    /\ lastReport.validator_score = 55
    /\ lastReport.json_ok

\* C12: after validator scores 40, 70, 55 in rounds 1, 2, 3 the report
\* returned for round 3 flags the score regression against round 2.
RegressionFlagged ==
    RegressionScenario =>
        /\ ~lastReport.raised
        /\ lastReport.specific_feedback = "score_regression"

\* C13: a call with current_iteration at or over max_validation_iterations
\* returns, without parsing the accumulator and without running the
\* validation agent, a passing report that has no missing fields and no retry
\* recommendations and whose feedback names the iteration limit.
ForcedAccept ==
    (validateCalls > 0 /\ lastReport.current_iteration >= max_validation_iterations) =>
        /\ lastReport.validation_passed /\ ~lastReport.raised
        /\ ~lastReport.parsed /\ ~lastReport.consulted
        /\ ~lastReport.critical_fields_missing
        /\ ~lastReport.retry_recommendations
        /\ lastReport.specific_feedback = "max_iterations_reached"

\* a call exactly at the cap, with an accumulator that does not even parse
ForcedAcceptWitness ==
    /\ lastReport.current_iteration = max_validation_iterations
    /\ ~lastReport.json_ok
    /\ lastReport.forced /\ runStatus = "running"

\* C15: when the seed URL cannot be fetched during navigation discovery, the
\* run fails: the failure reaches the caller of orchestrate_extraction.
SeedFailureTerminal ==
    (lastDiscovery.called /\ site.outcome = "fetch_error") =>
        runStatus = "failed"

\* C16: a rendered page titled "Just a moment..." is reported as a challenge
\* and is never returned as content by scrape_url_to_content.
ChallengeNotContent ==
    (lastScrape.called /\ lastScrape.page.title = "Just a moment...") =>
        /\ lastScrape.returned # "content"
        /\ lastScrape.challenge_detected

\* C19: no two entries of the list returned by extract_navigation_links have
\* the same absolute URL.
NavigationDedup ==
    \A i, j \in 1..Len(lastDiscovery.nav_links) :
        i # j => lastDiscovery.nav_links[i].url # lastDiscovery.nav_links[j].url

\* the same absolute URL comes from an <a href>, from a clickable element and
\* from a script literal, and the list has it once
NavigationDedupWitness ==
    LET u == Href("https", "x.test", "/floor-plans/") IN
    /\ \E i \in 1..Len(site.page.anchors) :
          resolve_url(site.page.anchors[i].href, SeedUrl) = Some(u)
    /\ \E i \in 1..Len(site.page.clickables) :
          /\ ~site.page.clickables[i].has_anchor
          /\ infer_url_from_text(site.page.clickables[i].text, SeedUrl) = Some(u)
    /\ \E i \in 1..Len(site.page.matches) :
          resolve_url(site.page.matches[i], SeedUrl) = Some(u)
    /\ lastDiscovery.called
    /\ Cardinality({i \in 1..Len(lastDiscovery.nav_links) :
                       lastDiscovery.nav_links[i].url = u}) = 1

\* C20: every URL returned by extract_navigation_links is on the domain of
\* the seed URL.
SameDomainOnly ==
    \A i \in 1..Len(lastDiscovery.nav_links) :
        lastDiscovery.nav_links[i].url.netloc = SeedUrl.netloc

\* the seed page offers an off-domain URL through a link, a clickable element
\* or a script literal, and the list returned is not empty
SameDomainOnlyWitness ==
    /\ lastDiscovery.nav_links # <<>>
    /\ \/ \E i \in 1..Len(site.page.anchors) :
             site.page.anchors[i].href.netloc = "evil.test"
       \/ \E i \in 1..Len(site.page.clickables) :
             site.page.clickables[i].data_url.netloc = "evil.test"
       \/ \E i \in 1..Len(site.page.matches) :
             site.page.matches[i].netloc = "evil.test"

\* C17: every fee, floor plan, amenity and page of a tool result merged into
\* the accumulator is in the accumulator that the run returns, under its
\* identity key.
NoFactLost ==
    Merged =>
        /\ \A j \in DOMAIN last.new.obj.fees :
              \E i \in DOMAIN acc.fees :
                 FeeKey(acc.fees[i]) = FeeKey(last.new.obj.fees[j])
        /\ \A j \in DOMAIN last.new.obj.floor_plans :
              \E i \in DOMAIN acc.floor_plans :
                 PlanKey(acc.floor_plans[i]) = PlanKey(last.new.obj.floor_plans[j])
        /\ \A j \in DOMAIN last.new.obj.community_amenities :
              \E i \in DOMAIN acc.community_amenities :
                 AmenityKey(acc.community_amenities[i])
                   = AmenityKey(last.new.obj.community_amenities[j])
        /\ \A j \in DOMAIN last.new.obj.community_pages :
              \E i \in DOMAIN acc.community_pages :
                 PageIdentity(acc.community_pages[i])
                   = PageIdentity(last.new.obj.community_pages[j])

\* C18: every orchestrate_extraction call on an agent starts with an empty
\* processed-URL set and with the target_data it was given.
RunScopedState ==
    \A r \in DOMAIN runs : runs[r].processed_urls = {}

\* C21: discover_navigation places every discovered link in exactly one of
\* floor_plan_urls, fee_urls and community_urls; a link that matches a
\* floor-plan keyword is in floor_plan_urls even if it matches a fee keyword
\* too, and a link that matches neither is in community_urls.
ClassificationPartition ==
    LET d == lastDiscovery
        InList(list, link) == \E i \in DOMAIN list : list[i] = link
        Count(link) == (IF InList(d.floor_plan_urls, link) THEN 1 ELSE 0)
                     + (IF InList(d.fee_urls, link) THEN 1 ELSE 0)
                     + (IF InList(d.community_urls, link) THEN 1 ELSE 0)
    IN /\ Len(d.floor_plan_urls) + Len(d.fee_urls) + Len(d.community_urls)
            = Len(d.nav_links)
       /\ \A i \in DOMAIN d.nav_links :
            LET link == d.nav_links[i] IN
            /\ Count(link) = 1
            /\ IsFloorPlanLink(link) => InList(d.floor_plan_urls, link)
            /\ (~IsFloorPlanLink(link) /\ IsFeeLink(link)) => InList(d.fee_urls, link)
            /\ (~IsFloorPlanLink(link) /\ ~IsFeeLink(link))
                  => InList(d.community_urls, link)

\* a discovery that returned a link matching both keyword sets, a fee link
\* and a link matching neither
ClassificationPartitionWitness ==
    /\ lastDiscovery.called
    /\ \E i \in DOMAIN lastDiscovery.floor_plan_urls :
          IsFeeLink(lastDiscovery.floor_plan_urls[i])
    /\ lastDiscovery.fee_urls # <<>>
    /\ lastDiscovery.community_urls # <<>>

\* C22: once the scraper's context manager has been exited, the browser
\* context, the browser and the Playwright driver are closed, also when one
\* of the closes raised; and every page that a scrape_url_to_content call
\* opened is closed when the call has ended.
ResourcesReleased ==
    /\ scraper.phase = "exited" =>
          /\ scraper.context = "closed"
          /\ scraper.browser = "closed"
          /\ scraper.playwright = "closed"
    /\ scraper.open_pages = 0

\* C23: a scrape_url_to_content call makes between 1 and max_retries + 1
\* render attempts, and more than one when the first attempt fails.
BoundedFetchRetry ==
    lastScrape.called =>
        /\ lastScrape.render_attempts >= 1
        /\ (~lastScrape.page.goto_ok /\ ~lastScrape.validate_first)
              => lastScrape.render_attempts > 1

\* C24: the final_validation_score and the quality assessment of the returned
\* OrchestrationResult are those of the last validation of the run, so a run
\* whose last validation failed is not reported with a passing score.
HonestScore ==
    (orchestration.ended = "returned" /\ validateCalls > 0) =>
        /\ orchestration.final_validation_score = lastReport.completeness_score
        /\ orchestration.quality_assessment
             = assess_data_quality(lastReport.completeness_score)

UserErrorNotRetryable ==
    /\ lastRun.primary.class = "UserError" => ~lastRun.retryable
    /\ lastRun.primary = Error("Exception", "Rate limit exceeded") => lastRun.retryable

\* C27: when _parse_and_save_community_info is called for a ShopResult whose
\* CommunityInfo has pages, afterwards the pages are exactly those of the new
\* data, each a new row, and name and overview are the new ones.
UpdateReplacesPages ==
    (lastSave.called /\ ~lastSave.created /\ lastSave.before.pages # <<>>) =>
        /\ Len(db.pages) = Len(lastSave.data.community_pages)
        /\ \A i \in DOMAIN db.pages :
              /\ db.pages[i].name = lastSave.data.community_pages[i].name
              /\ db.pages[i].id >= lastSave.before.next_id
        /\ db.name = lastSave.data.name
        /\ db.overview = lastSave.data.overview

\* C28: when the extraction or the persistence raised in an execution of
\* start_information_gathering_task, the shop is ERROR with end_time set,
\* exactly one retry was requested in that execution, and the execution
\* raised nothing if the retry limit was exceeded; for a shop id that does
\* not exist the task returns and the Shop table is unchanged.
TaskFailureHandled ==
    /\ task.handled =>
          /\ shop.status = "ERROR"
          /\ shop.end_time
          /\ task.retry_requests = 1
          /\ (task.retries + 1 > max_retries => task.raised = "none")
    /\ (~shop.exists /\ task.pc # "queued") =>
          /\ task.pc = "returned"
          /\ shop = task.shop_before

\* C29: a Shop whose status is COMPLETED has start_time and end_time set and
\* a ShopResult with a CommunityInfo holding the gathered data.
CompletedImpliesResults ==
    shop.status = "COMPLETED" =>
        /\ shop.start_time
        /\ shop.end_time
        /\ db.shop_result
        /\ db.community_info
        /\ db.name = task.community_data.name

CompletedWitness ==
    /\ shop.status = "COMPLETED"
    /\ task.retries > 0
    /\ db.community_info

\* C30: two tool calls without force_rescrape for the same URL are never both
\* waiting for the specialist, and the specialist is started at most once
\* per URL by calls without force_rescrape, however the calls interleave.
NoDoubleDispatch ==
    /\ \A c1, c2 \in Calls :
          (/\ c1 # c2
           /\ inflight[c1].awaiting /\ inflight[c2].awaiting
           /\ ~inflight[c1].force /\ ~inflight[c2].force)
          => inflight[c1].url # inflight[c2].url
    /\ \A u \in URLs : specialistCalls[u].plain <= 1

\* C31: a merge_community_data call that failed, whether in parsing
\* current_data_json, in parsing new_data_json or inside the merge, returned
\* current_data_json exactly as it was passed in.
MergeFailurePreserves ==
    mergeCall.failed # "no" => mergeCall.returned = mergeCall.current_data_json

\* the merge itself raised on an accumulator with a fee that was not
\* written the way json.dumps writes
MergeFailurePreservesWitness ==
    /\ mergeCall.failed = "merge"
    /\ ~mergeCall.current_data_json.dumped
    /\ Len(mergeCall.current_data_json.obj.fees) > 0
    /\ mergeCall.returned = mergeCall.current_data_json

\* C32: merging the empty record of a skipped URL into a non-empty
\* accumulator leaves the entries of the four collections and every
\* populated scalar of the accumulator as they were.
SkipPlaceholderNeutral ==
    \A u \in URLs :
        (/\ mergeCall.called
         /\ mergeCall.new_data_json = dumps(SkipRecord(u))
         /\ mergeCall.current_data_json.kind = "object"
         /\ mergeCall.current_data_json.obj.keys # {})
        => /\ mergeCall.failed = "no"
           /\ \A c \in CollectionKeys :
                 mergeCall.returned.obj[c] = mergeCall.current_data_json.obj[c]
           /\ \A k \in ScalarKeys :
                 TruthyStr(mergeCall.current_data_json.obj[k]) =>
                    mergeCall.returned.obj[k] = mergeCall.current_data_json.obj[k]

\* the record of a skipped URL met an accumulator with a page, a name and a
\* URL of its own
SkipPlaceholderNeutralWitness ==
    /\ mergeCall.called
    /\ \E u \in URLs : mergeCall.new_data_json = dumps(SkipRecord(u))
    /\ Len(mergeCall.current_data_json.obj.community_pages) > 0
    /\ TruthyStr(mergeCall.current_data_json.obj.name)
    /\ TruthyStr(mergeCall.current_data_json.obj.url)
    /\ mergeCall.returned.obj.url = mergeCall.current_data_json.obj.url

\* C33: a shop that CancelShopView has set to ERROR is never IN_PROGRESS or
\* COMPLETED afterwards, whatever the task running for it does.
CancellationFinal ==
    cancelled => shop.status \notin {"IN_PROGRESS", "COMPLETED"}

\* C34: a target never has two shops that are PENDING or IN_PROGRESS at the
\* same time, however StartShopView requests, task executions and task
\* retries interleave.
OneActiveShop == Cardinality(ActiveShops(shops)) <= 1

\* C35: the task is executed at most max_retries + 1 = 4 times for a shop,
\* retry number n (n = 0, 1, 2) is requested with a delay of 2 * 2^n seconds,
\* and after the last execution the shop is COMPLETED or ERROR.
TaskRetriesBounded ==
    /\ task.retries + 1 <= 4
    /\ task.pc = "retrying" =>
          /\ task.retries \in {0, 1, 2}
          /\ task.countdown = 2 * 2 ^ task.retries
    /\ (shop.exists /\ task.pc \in {"returned", "raised"}) =>
          shop.status \in {"COMPLETED", "ERROR"}

\* C36: the in-memory merge, the retry merge and the persistence merge agree
\* on whether the plan just merged is one of the plans merged before, and
\* after the same sequence of plans each holds the same set of floor plans.
OneDuplicateRule ==
    /\ \A i \in DOMAIN planMerges.before : \A j \in DOMAIN planMerges.new :
          /\ SameInMemory(planMerges.before[i], planMerges.new[j])
                = SameInRetry(planMerges.before[i], planMerges.new[j])
          /\ SameInRetry(planMerges.before[i], planMerges.new[j])
                = SamePersisted(planMerges.before[i], planMerges.new[j])
    /\ Range(planMerges.memory) = Range(planMerges.retry)
    /\ Range(planMerges.retry) = Range(planMerges.persisted)

====
